---------------------------- MODULE Spec2Model ----------------------------
(***************************************************************************)
(* A model of daiquiri: the keyword-argument adapter, the logger registry, *)
(* the color/extras formatters, the TTY-detecting stream handler and       *)
(* setup().  Python dictionaries are sequences of <<key, value>> pairs in  *)
(* insertion order; strings are TLA+ strings; an exception is the name of  *)
(* its class, "" when the call returned.                                   *)
(***************************************************************************)
EXTENDS Integers, Sequences, FiniteSets, TLC

VARIABLES
    rec,        \* the LogRecord the formatter scenario works on
    fmtr,       \* the formatter object in use
    before,     \* rec as it was when the last call started
    res,        \* the last call's outcome: [exc, s]
    res1,       \* the outcome of the format() call before the last one
    op,         \* the last operation applied to rec
    ncalls,     \* number of format() calls made on rec so far
    pSelf,      \* the adapter process() is called on: its extra dictionary
    pCall,      \* the arguments of the last process() call
    pOut,       \* what the last process() call returned and left behind
    loggers,    \* _LOGGERS and the references the program holds, per name
    sink,       \* the stream handler on the root logger and its formatter
    stream,     \* the lines written to the sink's stream, with their origin
    logExc,     \* the exception the last log call raised to its caller
    root,       \* the root logger: its handlers, level, and sys.excepthook
    setupOut,   \* the last setup() call: its arguments and how it ended
    nsetup,     \* number of setup() calls made so far
    events,     \* uncaught exceptions and warnings, with the records they made
    outs,       \* the Outputs added to a logger, with what each has written
    outLevel,   \* the level of that logger
    logged,     \* the records logged on it: severity and the level in force
    sock,       \* the socket handler: connected, retry pending, times opened
    wire,       \* the payloads the peer of the socket has received, in order
    sockLog,    \* the lines logged through the socket sink, with what happened
    thr,        \* per thread: its record, where it is in format(), its result
    pathCall,   \* the last _get_log_file_path call: arguments and outcome
    facCall     \* the last _find_facility call: argument and outcome

fmtVars == <<rec, fmtr, before, res, res1, op, ncalls>>

procVars == <<pSelf, pCall, pOut>>

logVars == <<loggers, sink, stream, logExc>>

setupVars == <<root, setupOut, nsetup, events>>

outVars == <<outs, outLevel, logged>>

sockVars == <<sock, wire, sockLog>>

thrVars == <<thr>>

utilVars == <<pathCall, facCall>>

\* what each scenario leaves alone
fmtOthers == <<procVars, logVars, setupVars, outVars, sockVars,
    thrVars, utilVars>>
procOthers == <<fmtVars, logVars, setupVars, outVars, sockVars,
    thrVars, utilVars>>
logOthers == <<fmtVars, procVars, setupVars, outVars, sockVars,
    thrVars, utilVars>>
setupOthers == <<fmtVars, procVars, logVars, outVars, sockVars,
    thrVars, utilVars>>
outOthers == <<fmtVars, procVars, logVars, setupVars, sockVars,
    thrVars, utilVars>>
sockOthers == <<fmtVars, procVars, logVars, setupVars, outVars,
    thrVars, utilVars>>
thrOthers == <<fmtVars, procVars, logVars, setupVars, outVars, sockVars,
    utilVars>>
utilOthers == <<fmtVars, procVars, logVars, setupVars, outVars, sockVars,
    thrVars>>

vars == <<rec, fmtr, before, res, res1, op, ncalls, pSelf, pCall, pOut,
          loggers, sink, stream, logExc, root, setupOut, nsetup, events,
          outs, outLevel, logged, sock, wire, sockLog, thr, pathCall,
          facCall>>

-----------------------------------------------------------------------------
(* Bounds of the model.                                                    *)

\* at most this many extra attributes on a generated record
MaxFields == 2
\* at most this many format() calls on one record
MaxFormats == 2
\* at most this many keyword arguments in one log call
MaxKw == 2
\* at most this many lines on the sink's stream
MaxLines == 2
\* at most this many setup() calls
MaxSetups == 2
\* at most this many handlers the program itself adds to the root logger
MaxOwnHandlers == 1
\* at most this many uncaught exceptions and warnings
MaxEvents == 1
\* at most this many Outputs on one logger
MaxOutputs == 2
\* at most this many records logged through the Outputs
MaxRecords == 2
\* at most this many records logged through the socket sink
MaxSent == 3

-----------------------------------------------------------------------------
(* Python dict, insertion ordered.                                         *)

Has(d, k) == \E i \in 1..Len(d) : d[i][1] = k

Get(d, k) == d[CHOOSE i \in 1..Len(d) : d[i][1] = k][2]

Set(d, k, v) ==
    IF Has(d, k)
    THEN [i \in 1..Len(d) |-> IF d[i][1] = k THEN <<k, v>> ELSE d[i]]
    ELSE Append(d, <<k, v>>)

Del(d, k) == SelectSeq(d, LAMBDA p : p[1] # k)

DictKeys(d) == [i \in 1..Len(d) |-> d[i][1]]

KeySet(d) == {d[i][1] : i \in 1..Len(d)}

RECURSIVE Update(_, _)
Update(d, e) ==
    IF e = <<>> THEN d ELSE Update(Set(d, e[1][1], e[1][2]), Tail(e))

Range(s) == {s[i] : i \in 1..Len(s)}

\* the sequences of distinct elements of S of length at most n
RECURSIVE DistinctSeqs(_, _)
DistinctSeqs(S, n) ==
    IF n = 0 THEN {<<>>}
    ELSE LET shorter == DistinctSeqs(S, n - 1)
         IN  shorter \cup
             UNION {{Append(q, x) : x \in S \ Range(q)} : q \in shorter}

Perms(q) == {p \in DistinctSeqs(Range(q), Len(q)) : Len(p) = Len(q)}

RECURSIVE Spaces(_)
Spaces(n) == IF n <= 0 THEN "" ELSE " " \o Spaces(n - 1)

EndsWith(s, suffix) ==
    /\ Len(s) >= Len(suffix)
    /\ SubSeq(s, Len(s) - Len(suffix) + 1, Len(s)) = suffix

-----------------------------------------------------------------------------
(* Log records and the attributes the standard library gives them.         *)

StandardLevels == {10, 20, 30, 40, 50}

\* 25 stands for a level registered by the application
Levels == StandardLevels \cup {25}

getLevelName(levelno) ==
    CASE levelno = 10 -> "DEBUG"
      [] levelno = 20 -> "INFO"
      [] levelno = 30 -> "WARNING"
      [] levelno = 40 -> "ERROR"
      [] levelno = 50 -> "CRITICAL"
      [] OTHER -> "Level " \o ToString(levelno)

StdAttrs == {"asctime", "process", "levelname", "name", "message"}

StdAttr(r, f) ==
    CASE f = "asctime" -> "2026-01-01 00:00:00,000"
      [] f = "process" -> "4242"
      [] f = "levelname" -> getLevelName(r.levelno)
      [] f = "name" -> r.name
      [] f = "message" -> r.msg

\* the outcome of a call on a record
Ok(r, s) == [rec |-> r, exc |-> "", s |-> s]
Raise(r, e) == [rec |-> r, exc |-> e, s |-> ""]

-----------------------------------------------------------------------------
(* logging.Formatter.format: the %-template applied to record.__dict__.    *)

Lit(t) == [kind |-> "lit", text |-> t]
Fs(f) == [kind |-> "s", text |-> f]
Fpad(f) == [kind |-> "-8.8s", text |-> f]
Fd(f) == [kind |-> "d", text |-> f]

Pad8(s) ==
    LET t == IF Len(s) > 8 THEN SubSeq(s, 1, 8) ELSE s
    IN  t \o Spaces(8 - Len(t))

HasAttr(r, f) == f \in StdAttrs \/ Has(r.d, f)

GetAttr(r, f) == IF f \in StdAttrs THEN StdAttr(r, f) ELSE Get(r.d, f)

FmtFields(fmt) == {fmt[i].text : i \in {j \in 1..Len(fmt) : fmt[j].kind # "lit"}}

RECURSIVE Render(_, _)
Render(fmt, r) ==
    IF fmt = <<>> THEN ""
    ELSE LET t == Head(fmt)
             piece == CASE t.kind = "lit" -> t.text
                        [] t.kind = "-8.8s" -> Pad8(GetAttr(r, t.text))
                        [] OTHER -> GetAttr(r, t.text)
         IN  piece \o Render(Tail(fmt), r)

Interpolate(fmt, r) ==
    IF \A f \in FmtFields(fmt) : HasAttr(r, f)
    THEN Ok(r, Render(fmt, r))
    ELSE Raise(r, "KeyError")

-----------------------------------------------------------------------------
(* formatter.py: ColorFormatter, ExtrasFormatter, ColorExtrasFormatter.    *)

LEVEL_COLORS ==
    (10 :> "\\033[00;32m") @@ (20 :> "\\033[00;36m") @@ (30 :> "\\033[01;33m")
        @@ (40 :> "\\033[01;31m") @@ (50 :> "\\033[01;31m")

COLOR_STOP == "\\033[0m"

DEFAULT_EXTRAS_FORMAT ==
    << Fs("asctime"), Lit(" ["), Fd("process"), Lit("] "), Fs("color"),
       Fpad("levelname"), Lit(" "), Fs("name"), Fs("extras"), Lit(": "),
       Fs("message"), Fs("color_stop") >>

SetD(r, k, v) == [r EXCEPT !.d = Set(r.d, k, v)]

\* del record.<k>
DelAttr(r, k) ==
    IF Has(r.d, k) THEN Ok([r EXCEPT !.d = Del(r.d, k)], "")
    ELSE Raise(r, "AttributeError")

\* a mutant: the terminal flag is ignored and every record is colored
add_color_always(r) ==
    IF r.levelno \in DOMAIN LEVEL_COLORS
    THEN Ok(SetD(SetD(r, "color", LEVEL_COLORS[r.levelno]),
                 "color_stop", COLOR_STOP), "")
    ELSE Raise(r, "KeyError")

add_color(r) ==
    IF r.tty = "True"
    THEN IF r.levelno \in DOMAIN LEVEL_COLORS
         THEN Ok(SetD(SetD(r, "color", LEVEL_COLORS[r.levelno]),
                      "color_stop", COLOR_STOP), "")
         ELSE Raise(r, "KeyError")
    ELSE Ok(SetD(SetD(r, "color", ""), "color_stop", ""), "")

remove_color(r) ==
    LET a == DelAttr(r, "color")
    IN  IF a.exc # "" THEN a ELSE DelAttr(a.rec, "color_stop")

\* extras_template.format(k, v)
Template(f, k, v) ==
    CASE f.extras_template = "[{0}: {1}]" -> "[" \o k \o ": " \o v \o "]"
      [] f.extras_template = "{0}={1}" -> k \o "=" \o v

RECURSIVE Join(_, _)
Join(parts, sep) ==
    IF parts = <<>> THEN ""
    ELSE IF Len(parts) = 1 THEN parts[1]
    ELSE parts[1] \o sep \o Join(Tail(parts), sep)

\* the keys add_extras renders, in the order the record yields them
Shown(f, r) ==
    SelectSeq(r.keys,
              LAMBDA k : k # "_daiquiri_extra_keys" /\ k \notin f.keywords)

\* a mutant: prefix and suffix are put around an empty extras string too
add_extras_always_prefix(f, r) ==
    IF ~r.hasKeys THEN Ok(SetD(r, "extras", ""), "")
    ELSE LET shown == Shown(f, r)
         IN  IF \E i \in 1..Len(shown) : ~HasAttr(r, shown[i])
             THEN Raise(r, "AttributeError")
             ELSE LET joined ==
                          Join([i \in 1..Len(shown) |->
                                   Template(f, shown[i], GetAttr(r, shown[i]))],
                               f.extras_separator)
                  IN  Ok(SetD(r, "extras",
                              f.extras_prefix \o joined \o f.extras_suffix), "")

add_extras(f, r) ==
    IF ~r.hasKeys THEN Ok(SetD(r, "extras", ""), "")
    ELSE LET shown == Shown(f, r)
         IN  IF \E i \in 1..Len(shown) : ~HasAttr(r, shown[i])
             THEN Raise(r, "AttributeError")
             ELSE LET joined ==
                          Join([i \in 1..Len(shown) |->
                                   Template(f, shown[i], GetAttr(r, shown[i]))],
                               f.extras_separator)
                      extras ==
                          IF joined # ""
                          THEN f.extras_prefix \o joined \o f.extras_suffix
                          ELSE joined
                  IN  Ok(SetD(r, "extras", extras), "")

remove_extras(r) == DelAttr(r, "extras")

ExtrasFormatter_format(f, r) ==
    LET a == add_extras(f, r)
    IN  IF a.exc # "" THEN a
        ELSE LET b == Interpolate(f.fmt, a.rec)
             IN  IF b.exc # "" THEN b
                 ELSE LET c == remove_extras(b.rec)
                      IN  IF c.exc # "" THEN c ELSE Ok(c.rec, b.s)

\* a mutant: the color attributes are removed when the inner format raises too
ColorExtrasFormatter_format_finally(f, r) ==
    LET a == add_color(r)
    IN  IF a.exc # "" THEN a
        ELSE LET b == ExtrasFormatter_format(f, a.rec)
                 c == remove_color(b.rec)
             IN  IF b.exc # "" THEN Raise(c.rec, b.exc)
                 ELSE IF c.exc # "" THEN c ELSE Ok(c.rec, b.s)

ColorExtrasFormatter_format(f, r) ==
    LET a == add_color(r)
    IN  IF a.exc # "" THEN a
        ELSE LET b == ExtrasFormatter_format(f, a.rec)
             IN  IF b.exc # "" THEN b
                 ELSE LET c == remove_color(b.rec)
                      IN  IF c.exc # "" THEN c ELSE Ok(c.rec, b.s)

-----------------------------------------------------------------------------
(* handlers.py: TTYDetectorStreamHandler.format.  isatty is what the       *)
(* handler's stream answers: "none" when it has no isatty attribute,       *)
(* "ValueError" when the stream is closed.                                 *)

IsattyAnswers == {"none", "True", "False", "ValueError"}

TTYDetectorStreamHandler_format(isatty, f, r) ==
    LET flagged == [r EXCEPT !.tty = IF isatty = "True" THEN "True" ELSE "False"]
        b == ColorExtrasFormatter_format(f, flagged)
    IN  IF b.exc # "" THEN b
        ELSE Ok([b.rec EXCEPT !.tty = "absent"], b.s)

-----------------------------------------------------------------------------
(* __init__.py: KeywordArgumentAdapter.process.  A call's keyword          *)
(* arguments are kw (in the order written) and, when hasExtra, the         *)
(* dictionary passed as extra=.  The result names what each dictionary     *)
(* involved holds when process returns.                                    *)

\* the value stored under _daiquiri_extra is the merged dictionary itself
SelfReference == "<extra>"

RECURSIVE MoveKeywords(_, _, _)
MoveKeywords(names, kw, extra) ==
    IF names = <<>> THEN [kw |-> kw, extra |-> extra]
    ELSE IF Head(names) = "exc_info"
         THEN MoveKeywords(Tail(names), kw, extra)
         ELSE MoveKeywords(Tail(names), Del(kw, Head(names)),
                           Set(extra, Head(names), Get(kw, Head(names))))

\* a mutant: the extra= dictionary is applied after the keywords
process_extra_last(self_extra, call) ==
    LET moved == MoveKeywords(DictKeys(call.kw), call.kw, self_extra)
        merged == IF call.hasExtra THEN Update(moved.extra, call.extra)
                  ELSE moved.extra
    IN  [self_extra |-> self_extra,
         caller_extra |-> call.extra,
         kw |-> moved.kw,
         extra |-> Set(merged, "_daiquiri_extra", SelfReference)]

\* a mutant: the merge is done in the adapter's own dictionary, not in a copy
process_no_copy(self_extra, call) ==
    LET updated == IF call.hasExtra THEN Update(self_extra, call.extra)
                   ELSE self_extra
        moved == MoveKeywords(DictKeys(call.kw), call.kw, updated)
    IN  [self_extra |-> Set(moved.extra, "_daiquiri_extra", SelfReference),
         caller_extra |-> call.extra,
         kw |-> moved.kw,
         extra |-> Set(moved.extra, "_daiquiri_extra", SelfReference)]

process(self_extra, call) ==
    LET copy == self_extra
        updated == IF call.hasExtra THEN Update(copy, call.extra) ELSE copy
        moved == MoveKeywords(DictKeys(call.kw), call.kw, updated)
    IN  [self_extra |-> self_extra,
         caller_extra |-> call.extra,
         kw |-> moved.kw,
         extra |-> Set(moved.extra, "_daiquiri_extra", SelfReference)]

-----------------------------------------------------------------------------
(* The adapter scenario: process() called with the keyword arguments of    *)
(* log calls.                                                              *)

KwNames == {"test", "key", "exc_info", "stack_info"}

KwValue(k) ==
    CASE k = "test" -> "a"
      [] k = "key" -> "k"
      [] k = "exc_info" -> "True"
      [] k = "stack_info" -> "True"

KwDicts ==
    {[i \in 1..Len(q) |-> <<q[i], KwValue(q[i])>>] :
        q \in DistinctSeqs(KwNames, MaxKw)}

\* the keyword arguments given to getLogger
CtorExtras ==
    { <<>>, << <<"key", "value">> >>, << <<"test", "c">> >>,
      << <<"test", "c">>, <<"key", "value">> >> }

\* the dictionaries passed as extra=
ExtraArgs == { << <<"test", "x">> >>, << <<"key", "y">>, <<"test", "x">> >> }

Calls ==
    {[hasExtra |-> FALSE, extra |-> <<>>, kw |-> kw] : kw \in KwDicts}
    \cup {[hasExtra |-> TRUE, extra |-> e, kw |-> kw] :
             e \in ExtraArgs, kw \in KwDicts}

NoCall == [hasExtra |-> FALSE, extra |-> <<>>, kw |-> <<>>]

NoOutput == [self_extra |-> <<>>, caller_extra |-> <<>>, kw |-> <<>>,
             extra |-> <<>>, called |-> FALSE]

ProcInit ==
    /\ pSelf = <<>>
    /\ pCall = NoCall
    /\ pOut = NoOutput

\* KeywordArgumentAdapter(logger, extra)
NewAdapter ==
    \E a \in CtorExtras :
        /\ pSelf' = a
        /\ pCall' = NoCall
        /\ pOut' = NoOutput
        /\ UNCHANGED procOthers

\* adapter.process(msg, kwargs)
ProcessCall ==
    \E c \in Calls :
        LET o == process(pSelf, c)
        IN  /\ pCall' = c
            /\ pOut' = [self_extra |-> o.self_extra,
                        caller_extra |-> o.caller_extra,
                        kw |-> o.kw, extra |-> o.extra, called |-> TRUE]
            /\ pSelf' = o.self_extra
            /\ UNCHANGED procOthers

ProcNext ==
    \/ NewAdapter
    \/ ProcessCall

-----------------------------------------------------------------------------
(* The formatter scenario: records handed to a formatter, and the calls    *)
(* a program or a handler makes on them.                                   *)

FieldNames == {"test", "test2", "color", "extras"}

FieldValue(k) ==
    CASE k = "test" -> "a"
      [] k = "test2" -> "b"
      [] k = "color" -> "red"
      [] k = "extras" -> "x"

\* the attribute dictionaries a log call can leave on a record
FieldDicts ==
    {[i \in 1..Len(q) |-> <<q[i], FieldValue(q[i])>>] :
        q \in DistinctSeqs(FieldNames, MaxFields)}

\* a record either carries _daiquiri_extra_keys, yielding the names of its
\* extra attributes in some order, or it does not carry the attribute
Records ==
    UNION {
        {[levelno |-> l, name |-> "my_module", msg |-> "test message",
          d |-> d, hasKeys |-> FALSE, keys |-> <<>>, tty |-> t] :
            l \in Levels, t \in {"absent", "True", "False"}}
        \cup
        {[levelno |-> l, name |-> "my_module", msg |-> "test message",
          d |-> d, hasKeys |-> TRUE, keys |-> ks, tty |-> t] :
            l \in Levels, t \in {"absent", "True", "False"},
            ks \in Perms(DictKeys(d))}
        : d \in FieldDicts}

TestFormat ==
    << Fs("levelname"), Lit(" "), Fs("name"), Fs("extras"), Lit(": "),
       Fs("message") >>

TestKeywordFormat ==
    << Fs("levelname"), Lit(" "), Fs("name"), Lit(" "), Fs("test"),
       Fs("extras"), Lit(": "), Fs("message") >>

ColorExtrasFormatter(fmt, keywords) ==
    [fmt |-> fmt, keywords |-> keywords, extras_template |-> "[{0}: {1}]",
     extras_separator |-> " ", extras_prefix |-> " ", extras_suffix |-> ""]

TEXT_FORMATTER == ColorExtrasFormatter(DEFAULT_EXTRAS_FORMAT, {})

Formatters ==
    { TEXT_FORMATTER,
      ColorExtrasFormatter(TestFormat, {}),
      ColorExtrasFormatter(TestKeywordFormat, {"test"}),
      [fmt |-> TestFormat, keywords |-> {"test", "test2"},
       extras_template |-> "{0}={1}", extras_separator |-> ", ",
       extras_prefix |-> " <", extras_suffix |-> ">"] }

NoResult == [exc |-> "", s |-> "", op |-> "none"]

FmtInit ==
    /\ rec = [levelno |-> 20, name |-> "my_module", msg |-> "test message",
              d |-> <<>>, hasKeys |-> FALSE, keys |-> <<>>, tty |-> "absent"]
    /\ fmtr = TEXT_FORMATTER
    /\ before = rec
    /\ res = NoResult
    /\ res1 = NoResult
    /\ op = "init"
    /\ ncalls = 0

\* a record reaches a formatter
NewRecord ==
    /\ op = "init"
    /\ \E r \in Records, f \in Formatters :
        /\ rec' = r
        /\ fmtr' = f
        /\ before' = r
        /\ res' = NoResult
        /\ res1' = NoResult
        /\ op' = "new"
        /\ ncalls' = 0
        /\ UNCHANGED fmtOthers

Outcome(o, name) == [exc |-> o.exc, s |-> o.s, op |-> name]

\* formatter.add_color(record), called on its own
CallAddColor ==
    /\ op = "new"
    /\ LET o == add_color(rec)
       IN  /\ rec' = o.rec
           /\ res' = Outcome(o, "add_color")
    /\ before' = rec
    /\ op' = "add_color"
    /\ UNCHANGED <<fmtr, res1, ncalls, fmtOthers>>

\* formatter.add_extras(record), called on its own
CallAddExtras ==
    /\ op = "new"
    /\ LET o == add_extras(fmtr, rec)
       IN  /\ rec' = o.rec
           /\ res' = Outcome(o, "add_extras")
    /\ before' = rec
    /\ op' = "add_extras"
    /\ UNCHANGED <<fmtr, res1, ncalls, fmtOthers>>

\* formatter.format(record)
CallFormat ==
    /\ op \in {"new", "format", "handler_format"}
    /\ ncalls < MaxFormats
    /\ LET o == ColorExtrasFormatter_format(fmtr, rec)
       IN  /\ rec' = o.rec
           /\ res' = Outcome(o, "format")
    /\ before' = rec
    /\ res1' = res
    /\ ncalls' = ncalls + 1
    /\ op' = "format"
    /\ UNCHANGED <<fmtr, fmtOthers>>

\* handler.format(record) of a TTYDetectorStreamHandler using fmtr
CallHandlerFormat ==
    /\ op \in {"new", "format", "handler_format"}
    /\ ncalls < MaxFormats
    /\ \E isatty \in IsattyAnswers :
        LET o == TTYDetectorStreamHandler_format(isatty, fmtr, rec)
        IN  /\ rec' = o.rec
            /\ res' = Outcome(o, "handler_format")
    /\ before' = rec
    /\ res1' = res
    /\ ncalls' = ncalls + 1
    /\ op' = "handler_format"
    /\ UNCHANGED <<fmtr, fmtOthers>>

FmtNext ==
    \/ NewRecord
    \/ CallAddColor
    \/ CallAddExtras
    \/ CallFormat
    \/ CallHandlerFormat

-----------------------------------------------------------------------------
(* The logging scenario: getLogger, log calls on the adapters it returns,  *)
(* and one stream sink on the root logger.                                 *)
(* loggers[n].live: _LOGGERS holds an adapter for n, which it does exactly *)
(* while the program references it (the registry is a                      *)
(* WeakValueDictionary).  asked and reused record the getLogger call that  *)
(* returned the program's reference: its keyword arguments and whether it  *)
(* found the adapter in the registry.                                      *)

Names == {"foobar", "my_module"}

\* the getLogger calls of the program: <<name, keyword arguments>>
GetLoggerCalls ==
    { <<"foobar", <<>> >>, <<"foobar", << <<"key", "value">> >> >>,
      <<"my_module", <<>> >> }

\* the log calls of the program: <<name, levelno, msg, keyword arguments>>
LogCalls ==
    { <<"foobar", 40, "argh", <<>> >>,
      <<"foobar", 30, "boo", <<>> >>,
      <<"foobar", 20, "foobar",
        << <<"foo", "bar">>, <<"exc_info", "True">>, <<"stack_info", "True">> >> >>,
      <<"my_module", 20, "test message", << <<"test", "a">> >> >>,
      <<"my_module", 20, "test message",
        << <<"test", "a">>, <<"test2", "b">> >> >> }

\* the sinks: a TTYDetectorStreamHandler on a StringIO with one of these
SinkFormatters ==
    { TEXT_FORMATTER,
      ColorExtrasFormatter(TestFormat, {}),
      ColorExtrasFormatter(TestKeywordFormat, {"test"}) }

NoSink == [present |-> FALSE, formatter |-> TEXT_FORMATTER, isatty |-> "False"]

NoAdapter == [live |-> FALSE, extra |-> <<>>, asked |-> <<>>, reused |-> FALSE]

LogInit ==
    /\ loggers = [n \in Names |-> NoAdapter]
    /\ sink = NoSink
    /\ stream = <<>>
    /\ logExc = ""

\* Output(handler, formatter).add_to_logger(root), handler a
\* TTYDetectorStreamHandler on an io.StringIO
AddSink ==
    /\ ~sink.present
    /\ \E f \in SinkFormatters :
           sink' = [present |-> TRUE, formatter |-> f, isatty |-> "False"]
    /\ UNCHANGED <<loggers, stream, logExc, logOthers>>

\* a mutant: every call builds a new adapter from its own keyword arguments
getLogger_always_new(registry, name, kwargs) ==
    [registry EXCEPT ![name] =
        [live |-> TRUE, extra |-> kwargs, asked |-> kwargs, reused |-> FALSE]]

\* getLogger(name, **kwargs), the program keeping the adapter returned
getLogger(registry, name, kwargs) ==
    IF ~registry[name].live
    THEN [registry EXCEPT ![name] =
              [live |-> TRUE, extra |-> kwargs, asked |-> kwargs,
               reused |-> FALSE]]
    ELSE [registry EXCEPT ![name].asked = kwargs, ![name].reused = TRUE]

GetLogger ==
    /\ \E c \in GetLoggerCalls : loggers' = getLogger(loggers, c[1], c[2])
    /\ UNCHANGED <<sink, stream, logExc, logOthers>>

\* the program drops its last reference: the weak registry loses the entry
DropLogger ==
    /\ \E n \in Names :
           /\ loggers[n].live
           /\ loggers' = [loggers EXCEPT ![n] = NoAdapter]
    /\ UNCHANGED <<sink, stream, logExc, logOthers>>

\* attributes a LogRecord has from construction: Logger.makeRecord refuses
\* an extra key that would overwrite one of them
RecordAttrs ==
    {"message", "asctime", "name", "msg", "args", "levelname", "levelno",
     "pathname", "filename", "module", "exc_info", "exc_text", "stack_info",
     "lineno", "funcName", "created", "msecs", "relativeCreated", "thread",
     "threadName", "processName", "process"}

\* Logger.makeRecord(name, level, ..., msg, ..., extra)
makeRecord(name, levelno, msg, extra) ==
    IF KeySet(extra) \cap RecordAttrs # {}
    THEN Raise([levelno |-> levelno, name |-> name, msg |-> msg, d |-> <<>>,
                hasKeys |-> FALSE, keys |-> <<>>, tty |-> "absent"],
               "KeyError")
    ELSE Ok([levelno |-> levelno, name |-> name, msg |-> msg, d |-> extra,
             hasKeys |-> Has(extra, "_daiquiri_extra_keys"), keys |-> <<>>,
             tty |-> "absent"], "")

\* adapter.log(level, msg, **kwargs) down to the handler's emit
LogCall ==
    /\ sink.present
    /\ Len(stream) < MaxLines
    /\ \E c \in LogCalls :
        /\ loggers[c[1]].live
        /\ LET adapter == loggers[c[1]]
               p == process(adapter.extra,
                            [hasExtra |-> FALSE, extra |-> <<>>, kw |-> c[4]])
               made == makeRecord(c[1], c[2], c[3], p.extra)
               o == TTYDetectorStreamHandler_format(sink.isatty,
                                                    sink.formatter, made.rec)
           IN  IF made.exc # ""
               THEN /\ logExc' = made.exc
                    /\ stream' = stream
               ELSE /\ logExc' = ""
                    /\ stream' =
                           IF o.exc # "" THEN stream
                           ELSE Append(stream,
                                       [text |-> o.s, name |-> c[1],
                                        levelno |-> c[2], msg |-> c[3],
                                        kw |-> c[4],
                                        fields |-> Del(p.extra, "_daiquiri_extra"),
                                        asked |-> adapter.asked,
                                        reused |-> adapter.reused])
    /\ UNCHANGED <<loggers, sink, logOthers>>

LogNext ==
    \/ AddSink
    \/ GetLogger
    \/ DropLogger
    \/ LogCall

-----------------------------------------------------------------------------
(* __init__.py: setup() and the root logger.  None is "None".  A handler   *)
(* is [kind, arg, by, formatted]: its class, the argument it was built     *)
(* with, the number of the setup() call that registered it (0 when the     *)
(* program registered it itself), and whether setFormatter was called.     *)

None == "None"

Handler(kind, arg, by) ==
    [kind |-> kind, arg |-> arg, by |-> by, formatted |-> FALSE]

\* handlers.ColorStreamHandler(stream) and handlers._get_binary_name() are
\* called by setup() and defined outside this source tree: the first builds
\* the stream sink on the file given, the second names the running program
ColorStreamHandler(file, n) == Handler("ColorStreamHandler", file, n)

get_binary_name == "python"

\* _get_log_file_path(logfile, logdir, binary): [path, exc]
SetupLogFilePath(logfile, logdir, binary) ==
    IF logdir = None THEN [path |-> logfile, exc |-> ""]
    ELSE IF logfile # None
    THEN [path |-> logdir \o "/" \o logfile, exc |-> ""]
    ELSE IF binary # None
    THEN [path |-> logdir \o "/" \o binary \o ".log", exc |-> ""]
    ELSE [path |-> logdir \o "/" \o get_binary_name \o ".log", exc |-> ""]

\* the facilities _find_facility accepts, LOG_ prefix and case aside
Facilities == {"user", "daemon", "local0"}

\* _find_facility(facility): the exception it raises, "" when it returns
SetupFindFacility(facility) ==
    IF facility \in Facilities THEN "" ELSE "TypeError"

\* handlers.JournalHandler(*args): __init__(self, program_name)
JournalHandler(nargs, journal) ==
    IF nargs # 1 THEN "TypeError"
    ELSE IF journal = None THEN "RuntimeError"
    ELSE ""

\* handlers.SyslogHandler(facility=...): __init__(self, program_name,
\* facility=None) called with or without program_name
SyslogHandler(hasProgramName, syslog) ==
    IF ~hasProgramName THEN "TypeError"
    ELSE IF syslog = None THEN "RuntimeError"
    ELSE ""

\* the handlers setup() adds after it removed the old ones: [handlers, exc]
AddHandlers(a, n) ==
    LET lp == SetupLogFilePath(a.logfile, a.logdir, a.binary)
        journalExc == JournalHandler(0, a.journal)
        first ==
            IF lp.exc # "" THEN [handlers |-> <<>>, exc |-> lp.exc]
            ELSE IF lp.path # None \/ a.use_journal
            THEN LET j == IF ~a.use_journal THEN [handlers |-> <<>>, exc |-> ""]
                          ELSE IF journalExc # ""
                          THEN [handlers |-> <<>>, exc |-> journalExc]
                          ELSE [handlers |->
                                    <<Handler("JournalHandler", None, n)>>,
                                exc |-> ""]
                 IN  IF j.exc # "" \/ lp.path = None THEN j
                     ELSE [handlers |->
                               Append(j.handlers,
                                      Handler("WatchedFileHandler", lp.path, n)),
                           exc |-> ""]
            ELSE [handlers |-> <<ColorStreamHandler("stderr", n)>>,
                  exc |-> ""]
        syslogExc ==
            IF a.syslog = None THEN "RuntimeError"
            ELSE IF SetupFindFacility(a.syslog_facility) # ""
            THEN SetupFindFacility(a.syslog_facility)
            ELSE SyslogHandler(FALSE, a.syslog)
    IN  IF first.exc # "" \/ ~a.use_syslog THEN first
        ELSE IF syslogExc # "" THEN [handlers |-> first.handlers,
                                     exc |-> syslogExc]
        ELSE [handlers |->
                  Append(first.handlers,
                         Handler("SyslogHandler", a.syslog_facility, n)),
              exc |-> ""]

\* setup(debug, format, ...): the root logger it leaves and the exception it
\* raised
setup(r, a, n) ==
    LET temporary == IF r.handlers = <<>>
                     THEN <<Handler("StreamHandler", "stderr", n)>>
                     ELSE r.handlers
        removed == SelectSeq(temporary, LAMBDA h : FALSE)
        added == AddHandlers(a, n)
        cleared == [r EXCEPT !.excepthook = "logging_excepthook",
                             !.hook_binary = a.binary,
                             !.handlers = removed \o added.handlers]
    IN  IF added.exc # "" THEN [root |-> cleared, exc |-> added.exc]
        ELSE [root |->
                  [cleared EXCEPT
                      !.handlers = [i \in 1..Len(added.handlers) |->
                                       [added.handlers[i] EXCEPT
                                           !.formatted = TRUE]],
                      !.level = IF a.debug THEN 10 ELSE 20],
              exc |-> ""]

\* the calls of the program, with what the platform provides (journal,
\* syslog); an argument the call never reads is left at its default
SetupArgs ==
    { a \in [debug : BOOLEAN, use_journal : BOOLEAN, use_syslog : BOOLEAN,
             use_stderr : {None, "True", "False"},
             logfile : {None, "app.log"}, logdir : {None, "/var/log"},
             binary : {None, "prog"}, syslog_facility : {"user", "bogus"},
             journal : {None, "module"}, syslog : {None, "module"}] :
        /\ a.binary # None => (a.logdir # None /\ a.logfile = None)
        /\ a.syslog_facility # "user" => (a.use_syslog /\ a.syslog # None)
        /\ a.journal # None => a.use_journal
        /\ a.syslog # None => a.use_syslog }

\* the parameters setup() declares
SetupParameters ==
    {"debug", "format", "date_format", "use_journal", "use_syslog",
     "use_stderr", "logfile", "logdir", "binary", "syslog_facility"}

NoKeyword == [name |-> None, value |-> <<>>]

\* calls of setup() made by the tests and the examples: one keyword argument,
\* its value as the sequence of names written
KeywordCalls ==
    { [name |-> "outputs", value |-> <<"stderr", "stdout">>],
      [name |-> "outputs", value |-> <<"syslog">>],
      [name |-> "outputs", value |-> <<"journal">>],
      [name |-> "outputs", value |-> <<"nonexistent">>],
      [name |-> "set_excepthook", value |-> <<"False">>],
      [name |-> "capture_warnings", value |-> <<"False">>],
      [name |-> "level", value |-> <<"DEBUG">>],
      [name |-> "program_name", value |-> <<"foobar">>] }

NoSetup ==
    [called |-> FALSE, exc |-> "", n |-> 0, kw |-> NoKeyword,
     args |-> [debug |-> FALSE, use_journal |-> FALSE, use_syslog |-> FALSE,
               use_stderr |-> None, logfile |-> None, logdir |-> None,
               binary |-> None, syslog_facility |-> "user",
               journal |-> None, syslog |-> None]]

\* the root logger of a fresh interpreter: no handler, level WARNING
SetupInit ==
    /\ root = [handlers |-> <<>>, level |-> 30, excepthook |-> "default",
               hook_binary |-> None, capture_warnings |-> FALSE]
    /\ setupOut = NoSetup
    /\ nsetup = 0
    /\ events = <<>>

\* daiquiri.setup(...); journal and syslog say whether the platform has the
\* systemd bindings and the syslog module
SetupCall ==
    /\ nsetup < MaxSetups
    /\ nsetup' = nsetup + 1
    /\ \E a \in SetupArgs :
           LET o == setup(root, a, nsetup + 1)
           IN  /\ root' = o.root
               /\ setupOut' = [called |-> TRUE, exc |-> o.exc,
                               n |-> nsetup + 1, kw |-> NoKeyword,
                               args |-> a]
    /\ UNCHANGED <<events, setupOthers>>

\* daiquiri.setup(<keyword>=...) with a keyword setup() does not declare:
\* the call raises TypeError before the body runs
SetupKeywordCall ==
    /\ nsetup < MaxSetups
    /\ nsetup' = nsetup + 1
    /\ \E k \in KeywordCalls :
           /\ k.name \notin SetupParameters
           /\ setupOut' = [called |-> TRUE, exc |-> "TypeError",
                           n |-> nsetup + 1, kw |-> k, args |-> NoSetup.args]
    /\ UNCHANGED <<root, events, setupOthers>>

\* the program registers a handler of its own on the root logger
AddOwnHandler ==
    /\ Cardinality({i \in 1..Len(root.handlers) : root.handlers[i].by = 0})
           < MaxOwnHandlers
    /\ root' = [root EXCEPT
                   !.handlers = Append(@, Handler("NullHandler", None, 0))]
    /\ setupOut' = [setupOut EXCEPT !.called = FALSE]
    /\ UNCHANGED <<nsetup, events, setupOthers>>

\* the name of the logger logging.getLogger(name) returns
LoggerName(name) == IF name = None THEN "root" ELSE name

\* an exception no one caught reaches sys.excepthook: logging_excepthook
\* logs "".join(traceback.format_exception_only(exc_type, value)) at
\* CRITICAL on logging.getLogger(binary); the interpreter's own hook logs
\* nothing
UncaughtException ==
    /\ setupOut.called
    /\ Len(events) < MaxEvents
    /\ events' = Append(events,
           [kind |-> "exception", hook |-> root.excepthook,
            capture |-> root.capture_warnings, after |-> setupOut,
            records |->
                IF root.excepthook = "logging_excepthook"
                THEN << [name |-> LoggerName(root.hook_binary),
                         levelno |-> 50,
                         msg |-> "Exception: Something went wrong\n"] >>
                ELSE <<>>])
    /\ UNCHANGED <<root, setupOut, nsetup, setupOthers>>

\* warnings.warn("omg!"): a record on 'py.warnings' when
\* logging.captureWarnings(True) is in force, which setup() never calls
Warn ==
    /\ setupOut.called
    /\ Len(events) < MaxEvents
    /\ events' = Append(events,
           [kind |-> "warning", hook |-> root.excepthook,
            capture |-> root.capture_warnings, after |-> setupOut,
            records |->
                IF root.capture_warnings
                THEN << [name |-> "py.warnings", levelno |-> 30,
                         msg |-> "UserWarning: omg!"] >>
                ELSE <<>>])
    /\ UNCHANGED <<root, setupOut, nsetup, setupOthers>>

SetupNext ==
    \/ SetupCall
    \/ SetupKeywordCall
    \/ UncaughtException
    \/ Warn
    \/ AddOwnHandler

-----------------------------------------------------------------------------
(* output.py: Output and its minimum level.  A handler is created with     *)
(* level NOTSET; Logger.log drops a record below the logger's level and    *)
(* Logger.callHandlers hands a record to the handlers whose level it       *)
(* reaches.  An Output here is [asked, handler, written]: the level        *)
(* argument, the handler, and the records (by number) its handler has      *)
(* written.  The level argument is [given, level], given being FALSE for   *)
(* level=None.  The program configures its logger, then logs.              *)

NOTSET == 0

\* a mutant: the level argument is dropped
Output_level_dropped(handler, formatter, level) ==
    [handler EXCEPT !.formatter = formatter]

\* Output.__init__(handler, formatter, level)
Output(handler, formatter, level) ==
    IF level.given
    THEN [handler EXCEPT !.formatter = formatter, !.level = level.level]
    ELSE [handler EXCEPT !.formatter = formatter]

NewHandler == [level |-> NOTSET, formatter |-> None]

OutputLevels ==
    {[given |-> FALSE, level |-> NOTSET]}
        \cup {[given |-> TRUE, level |-> l] : l \in {10, 20, 40}}

LoggerLevels == {NOTSET, 10, 30}

OutInit ==
    /\ outs = <<>>
    /\ outLevel = 30
    /\ logged = <<>>

\* Output(handler, level=...).add_to_logger(logger)
AddOutput ==
    /\ logged = <<>>
    /\ Len(outs) < MaxOutputs
    /\ \E level \in OutputLevels :
           outs' = Append(outs,
                          [asked |-> level,
                           handler |-> Output(NewHandler, "TEXT_FORMATTER",
                                              level),
                           written |-> <<>>])
    /\ UNCHANGED <<outLevel, logged, outOthers>>

\* logger.setLevel(level)
SetLevel ==
    /\ logged = <<>>
    /\ \E level \in LoggerLevels :
           /\ level # outLevel
           /\ outLevel' = level
    /\ UNCHANGED <<outs, logged, outOthers>>

\* Logger.isEnabledFor(levelno)
isEnabledFor(loggerLevel, levelno) == levelno >= loggerLevel

\* Logger.callHandlers(record): each handler whose level the record reaches
\* writes it
callHandlers(os, levelno, k) ==
    [i \in 1..Len(os) |->
        IF levelno >= os[i].handler.level
        THEN [os[i] EXCEPT !.written = Append(@, k)]
        ELSE os[i]]

\* logger.log(levelno, msg)
LogRecord ==
    /\ Len(logged) < MaxRecords
    /\ \E levelno \in StandardLevels :
           /\ logged' = Append(logged,
                               [levelno |-> levelno, level |-> outLevel])
           /\ outs' = IF isEnabledFor(outLevel, levelno)
                      THEN callHandlers(outs, levelno, Len(logged) + 1)
                      ELSE outs
    /\ UNCHANGED <<outLevel, outOthers>>

OutNext ==
    \/ AddOutput
    \/ SetLevel
    \/ LogRecord

-----------------------------------------------------------------------------
(* handlers.py: PlainTextSocketHandler, the handler of output.Datadog.  It *)
(* overrides makePickle and inherits emit, send and createSocket from      *)
(* logging.handlers.SocketHandler.  A formatted line is a sequence of code *)
(* points, a payload a sequence of bytes.  What the network does is the    *)
(* input of each log call: whether a connection attempt succeeds, whether  *)
(* sendall succeeds, and whether the retry time has passed.                *)

\* str.encode("utf-8") of one code point
EncodeChar(c) ==
    IF c < 128 THEN <<c>>
    ELSE IF c < 2048 THEN <<192 + (c \div 64), 128 + (c % 64)>>
    ELSE IF c < 65536
    THEN <<224 + (c \div 4096), 128 + ((c \div 64) % 64), 128 + (c % 64)>>
    ELSE <<240 + (c \div 262144), 128 + ((c \div 4096) % 64),
           128 + ((c \div 64) % 64), 128 + (c % 64)>>

\* str.encode(self.encoding), the encoding being "utf-8"
RECURSIVE Encode(_)
Encode(line) ==
    IF line = <<>> THEN <<>> ELSE EncodeChar(Head(line)) \o Encode(Tail(line))

\* a mutant: the newline is left out
makePickle_no_newline(line) == Encode(line)

\* PlainTextSocketHandler.makePickle(record), line being self.format(record)
makePickle(line) == Encode(line) \o <<10>>

\* SocketHandler.createSocket(): a connection attempt unless a retry time
\* is pending and has not passed
createSocket(h, env) ==
    IF h.retry /\ ~env.retryDue THEN h
    ELSE IF env.connectOk
    THEN [connected |-> TRUE, retry |-> FALSE, opens |-> h.opens + 1]
    ELSE [connected |-> FALSE, retry |-> TRUE, opens |-> h.opens]

\* a mutant: an OSError of sendall is not caught and the socket is kept
send_not_caught(h, payload, w, env) ==
    LET h1 == IF ~h.connected THEN createSocket(h, env) ELSE h
    IN  IF ~h1.connected
        THEN [h |-> h1, wire |-> w, outcome |-> "not_connected", exc |-> ""]
        ELSE IF env.sendOk
        THEN [h |-> h1, wire |-> Append(w, payload), outcome |-> "written",
              exc |-> ""]
        ELSE [h |-> h1, wire |-> w, outcome |-> "send_failed",
              exc |-> "OSError"]

\* SocketHandler.send(s): an OSError of sendall closes the socket and is
\* swallowed
send(h, payload, w, env) ==
    LET h1 == IF ~h.connected THEN createSocket(h, env) ELSE h
    IN  IF ~h1.connected
        THEN [h |-> h1, wire |-> w, outcome |-> "not_connected", exc |-> ""]
        ELSE IF env.sendOk
        THEN [h |-> h1, wire |-> Append(w, payload), outcome |-> "written",
              exc |-> ""]
        ELSE [h |-> [h1 EXCEPT !.connected = FALSE], wire |-> w,
              outcome |-> "send_failed", exc |-> ""]

\* SocketHandler.emit(record): whatever makePickle or send raises goes to
\* Handler.handleError, which reports on stderr and returns
emit(h, line, w, env) ==
    LET r == send(h, makePickle(line), w, env)
    IN  [h |-> r.h, wire |-> r.wire, outcome |-> r.outcome,
         handled |-> r.exc, raised |-> ""]

\* formatted lines: "foo", "\u00e9", "\u20ac\U0001f600"
SocketLines == { <<102, 111, 111>>, <<233>>, <<8364, 128512>> }

NetworkAnswers == [connectOk : BOOLEAN, sendOk : BOOLEAN, retryDue : BOOLEAN]

SockInit ==
    /\ sock = [connected |-> FALSE, retry |-> FALSE, opens |-> 0]
    /\ wire = <<>>
    /\ sockLog = <<>>

\* a log call that reaches the socket sink
LogToSocket ==
    /\ Len(sockLog) < MaxSent
    /\ \E line \in SocketLines, env \in NetworkAnswers :
           LET r == emit(sock, line, wire, env)
           IN  /\ sock' = r.h
               /\ wire' = r.wire
               /\ sockLog' = Append(sockLog,
                                    [line |-> line, outcome |-> r.outcome,
                                     raised |-> r.raised,
                                     connected |-> r.h.connected])
    /\ UNCHANGED sockOthers

SockNext == LogToSocket

-----------------------------------------------------------------------------
(* Two threads, each inside a log call of its own, whose records reach two *)
(* TTYDetectorStreamHandlers that share TEXT_FORMATTER.  A thread takes    *)
(* one statement of handler.format / ColorExtrasFormatter.format /         *)
(* ExtrasFormatter.format at a time; none of them holds a lock of the      *)
(* formatter.  An exception leaves format() at once: no statement of it is *)
(* in a try block.                                                          *)

Threads == {1, 2}

ThreadMessage(t) == IF t = 1 THEN "first message" ELSE "second message"

ThreadFields(t) ==
    IF t = 1 THEN << <<"test", "a">> >> ELSE << <<"test2", "b">> >>

\* the records the log call of thread t can have created
ThreadRecords(t) ==
    {[levelno |-> l, name |-> "my_module", msg |-> ThreadMessage(t),
      d |-> x.d, hasKeys |-> x.hasKeys, keys |-> x.keys, tty |-> "absent"] :
        l \in {20, 40, 25},
        x \in {[d |-> <<>>, hasKeys |-> FALSE, keys |-> <<>>],
               [d |-> ThreadFields(t), hasKeys |-> FALSE, keys |-> <<>>],
               [d |-> ThreadFields(t), hasKeys |-> TRUE,
                keys |-> DictKeys(ThreadFields(t))]}}

ThrInit ==
    thr = [t \in Threads |->
              [pc |-> "idle", given |-> CHOOSE r \in ThreadRecords(t) : TRUE,
               rec |-> CHOOSE r \in ThreadRecords(t) : TRUE,
               isatty |-> "False", s |-> "", exc |-> ""]]

\* the statement of thread t ends with outcome o: on to pc next, or out
Advance(t, o, next) ==
    thr' = [thr EXCEPT ![t] =
               IF o.exc # ""
               THEN [@ EXCEPT !.rec = o.rec, !.exc = o.exc, !.pc = "raised"]
               ELSE [@ EXCEPT !.rec = o.rec, !.pc = next]]

\* Handler.handle -> self.emit(record) -> self.format(record)
StartFormat ==
    /\ \E t \in Threads : \E r \in ThreadRecords(t) :
        \E a \in {"True", "False"} :
            /\ thr[t].pc = "idle"
            /\ thr' = [thr EXCEPT ![t] = [pc |-> "set_flag", given |-> r,
                                         rec |-> r, isatty |-> a, s |-> "",
                                         exc |-> ""]]
    /\ UNCHANGED thrOthers

\* record._stream_is_a_tty = self.stream.isatty()
SetFlag ==
    /\ \E t \in Threads :
        /\ thr[t].pc = "set_flag"
        /\ Advance(t, Ok([thr[t].rec EXCEPT !.tty = thr[t].isatty], ""),
                   "add_color")
    /\ UNCHANGED thrOthers

\* self.add_color(record)
AddColor ==
    /\ \E t \in Threads :
        /\ thr[t].pc = "add_color"
        /\ Advance(t, add_color(thr[t].rec), "add_extras")
    /\ UNCHANGED thrOthers

\* self.add_extras(record)
AddExtras ==
    /\ \E t \in Threads :
        /\ thr[t].pc = "add_extras"
        /\ Advance(t, add_extras(TEXT_FORMATTER, thr[t].rec), "interpolate")
    /\ UNCHANGED thrOthers

\* s = super(ExtrasFormatter, self).format(record)
FormatRecord ==
    /\ \E t \in Threads :
        /\ thr[t].pc = "interpolate"
        /\ LET o == Interpolate(TEXT_FORMATTER.fmt, thr[t].rec)
           IN  thr' = [thr EXCEPT ![t] =
                          IF o.exc # ""
                          THEN [@ EXCEPT !.exc = o.exc, !.pc = "raised"]
                          ELSE [@ EXCEPT !.s = o.s, !.pc = "remove_extras"]]
    /\ UNCHANGED thrOthers

\* self.remove_extras(record)
RemoveExtras ==
    /\ \E t \in Threads :
        /\ thr[t].pc = "remove_extras"
        /\ Advance(t, remove_extras(thr[t].rec), "remove_color")
    /\ UNCHANGED thrOthers

\* self.remove_color(record)
RemoveColor ==
    /\ \E t \in Threads :
        /\ thr[t].pc = "remove_color"
        /\ Advance(t, remove_color(thr[t].rec), "del_flag")
    /\ UNCHANGED thrOthers

\* del record._stream_is_a_tty; return s
DelFlag ==
    /\ \E t \in Threads :
        /\ thr[t].pc = "del_flag"
        /\ Advance(t, Ok([thr[t].rec EXCEPT !.tty = "absent"], ""), "done")
    /\ UNCHANGED thrOthers

ThrNext ==
    \/ StartFormat
    \/ SetFlag
    \/ AddColor
    \/ AddExtras
    \/ FormatRecord
    \/ RemoveExtras
    \/ RemoveColor
    \/ DelFlag

-----------------------------------------------------------------------------
(* output.py: _get_log_file_path and Syslog._find_facility.  An argument   *)
(* left out or passed as None is None; a call's outcome is [ret, exc].     *)

Returns(v) == [ret |-> v, exc |-> ""]
Raises(e) == [ret |-> None, exc |-> e]

\* Python's truth value of an Optional[str]
Truthy(x) == x # None /\ x # ""

StartsWith(x, prefix) ==
    Len(x) >= Len(prefix) /\ SubSeq(x, 1, Len(prefix)) = prefix

\* posixpath.join(a, b)
os_path_join(a, b) ==
    IF StartsWith(b, "/") THEN b
    ELSE IF a = "" \/ EndsWith(a, "/") THEN a \o b
    ELSE a \o "/" \o b

\* os.path.basename(inspect.stack()[-1][1]): the script that was started
get_program_name == "prog.py"

\* a mutant: the directory is ignored whenever a file name is given
get_log_file_path_file_first(logfile, logdir, program_name, logfile_suffix) ==
    IF Truthy(logfile) THEN Returns(logfile)
    ELSE IF Truthy(logdir)
    THEN Returns(os_path_join(logdir,
                              IF Truthy(program_name) THEN program_name
                              ELSE get_program_name) \o logfile_suffix)
    ELSE Raises("ValueError")

get_log_file_path(logfile, logdir, program_name, logfile_suffix) ==
    LET ret1 == IF ~Truthy(logdir) THEN logfile ELSE None
        ret2 == IF ~Truthy(ret1) /\ Truthy(logfile) /\ Truthy(logdir)
                THEN os_path_join(logdir, logfile)
                ELSE ret1
        name == IF Truthy(program_name) THEN program_name
                ELSE get_program_name
        ret3 == IF ~Truthy(ret2) /\ Truthy(logdir)
                THEN os_path_join(logdir, name) \o logfile_suffix
                ELSE ret2
    IN  IF ~Truthy(ret3) THEN Raises("ValueError") ELSE Returns(ret3)

\* the names Syslog._find_facility looks up in the syslog module
FacilityNames ==
    << "LOG_KERN", "LOG_USER", "LOG_MAIL", "LOG_DAEMON", "LOG_AUTH",
       "LOG_SYSLOG", "LOG_LPR", "LOG_NEWS", "LOG_UUCP", "LOG_CRON",
       "LOG_AUTHPRIV", "LOG_FTP", "LOG_LOCAL0", "LOG_LOCAL1", "LOG_LOCAL2",
       "LOG_LOCAL3", "LOG_LOCAL4", "LOG_LOCAL5", "LOG_LOCAL6", "LOG_LOCAL7" >>

\* the attributes of the syslog module, by platform: <syslog.h> numbers the
\* facilities from LOG_KERN = 0 in steps of 8; LOG_FTP is there on some
\* platforms only; LOG_PID is an option, not a facility
SyslogCommon ==
    << <<"LOG_KERN", 0>>, <<"LOG_USER", 8>>, <<"LOG_MAIL", 16>>,
       <<"LOG_DAEMON", 24>>, <<"LOG_AUTH", 32>>, <<"LOG_SYSLOG", 40>>,
       <<"LOG_LPR", 48>>, <<"LOG_NEWS", 56>>, <<"LOG_UUCP", 64>>,
       <<"LOG_CRON", 72>>, <<"LOG_AUTHPRIV", 80>>, <<"LOG_LOCAL0", 128>>,
       <<"LOG_LOCAL1", 136>>, <<"LOG_LOCAL2", 144>>, <<"LOG_LOCAL3", 152>>,
       <<"LOG_LOCAL4", 160>>, <<"LOG_LOCAL5", 168>>, <<"LOG_LOCAL6", 176>>,
       <<"LOG_LOCAL7", 184>>, <<"LOG_PID", 1>> >>

SyslogModules == { SyslogCommon, SyslogCommon \o << <<"LOG_FTP", 88>> >> }

\* str.upper(), one character
UpperChar(c) ==
    CASE c = "a" -> "A" [] c = "b" -> "B" [] c = "c" -> "C" [] c = "d" -> "D"
      [] c = "e" -> "E" [] c = "f" -> "F" [] c = "g" -> "G" [] c = "h" -> "H"
      [] c = "i" -> "I" [] c = "j" -> "J" [] c = "k" -> "K" [] c = "l" -> "L"
      [] c = "m" -> "M" [] c = "n" -> "N" [] c = "o" -> "O" [] c = "p" -> "P"
      [] c = "q" -> "Q" [] c = "r" -> "R" [] c = "s" -> "S" [] c = "t" -> "T"
      [] c = "u" -> "U" [] c = "v" -> "V" [] c = "w" -> "W" [] c = "x" -> "X"
      [] c = "y" -> "Y" [] c = "z" -> "Z" [] OTHER -> c

RECURSIVE upper(_)
upper(x) ==
    IF x = "" THEN ""
    ELSE UpperChar(SubSeq(x, 1, 1)) \o upper(SubSeq(x, 2, Len(x)))

\* getattr(syslog, f, None) is tested for truth, and 0 is false
valid_facilities(syslog) ==
    SelectSeq(FacilityNames,
              LAMBDA f : Has(syslog, f) /\ Get(syslog, f) # 0)

find_facility(syslog, facility) ==
    LET up == upper(facility)
        full == IF ~StartsWith(up, "LOG_") THEN "LOG_" \o up ELSE up
    IN  IF full \notin Range(valid_facilities(syslog))
        THEN [ret |-> -1, exc |-> "TypeError"]
        ELSE [ret |-> Get(syslog, full), exc |-> ""]

LogFiles == {None, "", "foobar.log", "/tmp/foobar.log"}

LogDirs == {None, "", "/var/log", "/var/log/foo/"}

ProgramNames == {None, "", "foobar"}

Suffixes == {".log", ".journal"}

FacilityArgs ==
    {"user", "log_local1", "LOG_local2", "LOG_LOCAL3", "LOCaL4", "kern",
     "LOG_KERN", "Daemon", "ftp", "pid", "log_", "local8", "", "LOGUSER"}

UtilInit ==
    /\ pathCall = [called |-> FALSE, logfile |-> None, logdir |-> None,
                   program_name |-> None, logfile_suffix |-> ".log",
                   ret |-> None, exc |-> ""]
    /\ facCall = [called |-> FALSE, syslog |-> SyslogCommon, facility |-> "",
                  ret |-> -1, exc |-> ""]

CallGetLogFilePath ==
    /\ \E lf \in LogFiles, ld \in LogDirs, pn \in ProgramNames,
          sx \in Suffixes :
        LET o == get_log_file_path(lf, ld, pn, sx)
        IN  pathCall' = [called |-> TRUE, logfile |-> lf, logdir |-> ld,
                         program_name |-> pn, logfile_suffix |-> sx,
                         ret |-> o.ret, exc |-> o.exc]
    /\ UNCHANGED <<facCall, utilOthers>>

CallFindFacility ==
    /\ \E m \in SyslogModules, f \in FacilityArgs :
        LET o == find_facility(m, f)
        IN  facCall' = [called |-> TRUE, syslog |-> m, facility |-> f,
                        ret |-> o.ret, exc |-> o.exc]
    /\ UNCHANGED <<pathCall, utilOthers>>

UtilNext ==
    \/ CallGetLogFilePath
    \/ CallFindFacility

-----------------------------------------------------------------------------
(* Claims on the formatters, checked under SpecFmt.                        *)

ScratchAttrs == {"color", "color_stop", "extras"}

\* nothing but the color lookup can make formatting r with f raise: the
\* record has no attribute named like a scratch attribute and the template
\* names only attributes the record has or the formatter attaches
Renderable(f, r) ==
    /\ KeySet(r.d) \cap ScratchAttrs = {}
    /\ FmtFields(f.fmt) \subseteq StdAttrs \cup ScratchAttrs \cup KeySet(r.d)

\* C1: format(record) called twice in succession returns the same string both
\* times, and after a call returns the record has none of color, color_stop,
\* extras and has the attributes it had before the call.
C1_FormatIdempotent ==
    /\ (op = "format" /\ res.exc = "") =>
           /\ KeySet(rec.d) \cap ScratchAttrs = {}
           /\ rec = before
    /\ (op = "format" /\ res1.op = "format" /\ res1.exc = "") =>
           /\ res.exc = ""
           /\ res.s = res1.s

\* C4: for each of the five standard severities add_color attaches the level's
\* non-empty start code and COLOR_STOP when the record is flagged as going to a
\* terminal, and two empty strings when the flag is false or absent.
C4_AddColorStandardLevels ==
    (op = "add_color" /\ before.levelno \in StandardLevels) =>
        /\ res.exc = ""
        /\ Has(rec.d, "color") /\ Has(rec.d, "color_stop")
        /\ IF before.tty = "True"
           THEN /\ Get(rec.d, "color") # ""
                /\ Get(rec.d, "color") = LEVEL_COLORS[before.levelno]
                /\ Get(rec.d, "color_stop") = COLOR_STOP
           ELSE /\ Get(rec.d, "color") = ""
                /\ Get(rec.d, "color_stop") = ""

C4_Witness ==
    /\ op = "add_color"
    /\ before.levelno = 30
    /\ before.tty = "True"
    /\ Get(rec.d, "color") = "\\033[01;33m"
    /\ Get(rec.d, "color_stop") = "\\033[0m"

\* C5: formatting a record whose severity is not one of the five mapped levels
\* never raises, whether or not the destination is a terminal.
C5_UnmappedLevelNeverRaises ==
    (/\ op \in {"add_color", "format", "handler_format"}
     /\ before.levelno \notin StandardLevels
     /\ Renderable(fmtr, before)) => res.exc = ""

\* C7: the extras string is empty, with neither prefix nor suffix, and
\* add_extras does not raise, when the record has no extra keys, when every
\* extra key is suppressed, and when it has no _daiquiri_extra_keys attribute.
C7_EmptyExtras ==
    (/\ op = "add_extras"
     /\ \/ ~before.hasKeys
        \/ Range(before.keys) \subseteq fmtr.keywords) =>
        /\ res.exc = ""
        /\ Has(rec.d, "extras")
        /\ Get(rec.d, "extras") = ""

C7_Witness ==
    /\ op = "add_extras"
    /\ before.hasKeys
    /\ before.keys # <<>>
    /\ Range(before.keys) \subseteq fmtr.keywords
    /\ fmtr.extras_suffix # ""
    /\ res.exc = ""
    /\ Get(rec.d, "extras") = ""

-----------------------------------------------------------------------------
(* Claims on KeywordArgumentAdapter.process, checked under SpecProc.       *)

ReservedKeywords == {"exc_info", "stack_info"}

\* C8: process leaves exc_info and stack_info in the keyword arguments handed
\* to the underlying logger and never copies either into the extra-fields
\* mapping; every other keyword is moved into the extra-fields mapping.
C8_ReservedKeywordsPassThrough ==
    pOut.called =>
        \A k \in KeySet(pCall.kw) :
            IF k \in ReservedKeywords
            THEN /\ Has(pOut.kw, k)
                 /\ Get(pOut.kw, k) = Get(pCall.kw, k)
                 /\ ~Has(pOut.extra, k)
            ELSE /\ ~Has(pOut.kw, k)
                 /\ Has(pOut.extra, k)
                 /\ Get(pOut.extra, k) = Get(pCall.kw, k)

\* the fields process() is given, reserved keywords aside
FieldKeys(d) == KeySet(d) \ ReservedKeywords

\* C9: for a key given in more than one place the merged mapping takes the
\* keyword argument's value, else the value of the caller's extra mapping,
\* else the adapter's construction-time value.
C9_MergePrecedence ==
    pOut.called =>
        /\ FieldKeys(pOut.extra) \ {"_daiquiri_extra"} =
               FieldKeys(pCall.kw) \cup FieldKeys(pCall.extra)
                   \cup FieldKeys(pOut.self_extra)
        /\ \A k \in FieldKeys(pOut.extra) \ {"_daiquiri_extra"} :
               Get(pOut.extra, k) =
                   IF Has(pCall.kw, k) THEN Get(pCall.kw, k)
                   ELSE IF Has(pCall.extra, k) THEN Get(pCall.extra, k)
                   ELSE Get(pOut.self_extra, k)

C9_Witness ==
    /\ pOut.called
    /\ Has(pOut.self_extra, "test") /\ Get(pOut.self_extra, "test") = "c"
    /\ pCall.hasExtra /\ Get(pCall.extra, "test") = "x"
    /\ Has(pCall.kw, "test") /\ Get(pCall.kw, "test") = "a"
    /\ Get(pOut.extra, "test") = "a"
    /\ Has(pOut.self_extra, "key") /\ Has(pCall.extra, "key")
    /\ ~Has(pCall.kw, "key")
    /\ Get(pOut.extra, "key") = "y"

\* C23: process() changes neither the adapter's own extra mapping nor the
\* extra dictionary the caller passed: in any sequence of calls on one adapter
\* the fields a call attaches are exactly the adapter's construction-time
\* fields, that call's extra mapping and that call's keywords, each with the
\* value one of the three gives it; nothing is carried over from an earlier
\* call.
C23_ProcessLeavesInputsAlone ==
    [][pOut'.called =>
          /\ pSelf' = pSelf
          /\ pOut'.caller_extra = pCall'.extra
          /\ KeySet(pOut'.extra) \ {"_daiquiri_extra"} =
                 KeySet(pSelf) \cup KeySet(pCall'.extra)
                     \cup (KeySet(pCall'.kw) \ KeySet(pOut'.kw))
          /\ \A k \in KeySet(pOut'.extra) \ {"_daiquiri_extra"} :
                 \/ Has(pCall'.kw, k) /\ Get(pOut'.extra, k) = Get(pCall'.kw, k)
                 \/ /\ Has(pCall'.extra, k)
                    /\ Get(pOut'.extra, k) = Get(pCall'.extra, k)
                 \/ Has(pSelf, k) /\ Get(pOut'.extra, k) = Get(pSelf, k)]_vars

C23_Witness ==
    /\ pOut.called
    /\ pSelf = << <<"key", "value">> >>
    /\ pCall.hasExtra
    /\ pCall.extra = << <<"test", "x">> >>
    /\ KeySet(pCall.kw) = {"exc_info"}
    /\ pOut.caller_extra = << <<"test", "x">> >>
    /\ KeySet(pOut.extra) = {"key", "test", "_daiquiri_extra"}

-----------------------------------------------------------------------------
(* Claims on log calls end to end, checked under SpecLog.                  *)

Contains(s, sub) ==
    \E i \in 1..(Len(s) - Len(sub) + 1) : SubSeq(s, i, i + Len(sub) - 1) = sub

\* C2: every keyword argument of a log call reaches the extras renderer as an
\* extra key: each one the sink's formatter does not suppress is shown on the
\* line written, and info('test message', test='a') under the format
\* '%(levelname)s %(name)s%(extras)s: %(message)s' writes
\* 'INFO my_module [test: a]: test message'.
C2_KeywordsReachExtras ==
    \A i \in 1..Len(stream) :
        LET l == stream[i]
        IN  /\ \A j \in 1..Len(l.kw) :
                   l.kw[j][1] \notin sink.formatter.keywords \cup ReservedKeywords
                       => Contains(l.text,
                                   "[" \o l.kw[j][1] \o ": " \o l.kw[j][2] \o "]")
            /\ ( /\ sink.formatter = ColorExtrasFormatter(TestFormat, {})
                 /\ l.name = "my_module" /\ l.levelno = 20
                 /\ l.msg = "test message"
                 /\ l.kw = << <<"test", "a">> >> )
                   => l.text = "INFO my_module [test: a]: test message"

\* C3: with one plain-text stream sink, getLogger('foobar').error('argh')
\* followed by getLogger('foobar', key='value').warning('boo'), the first
\* adapter still referenced, writes two lines in call order, the first
\* ending 'ERROR    foobar: argh' and the second ending
\* 'WARNING  foobar [key: value]: boo'.
C3_TwoLoggersOneName ==
    \A i \in 1..(Len(stream) - 1) :
        ( /\ sink.formatter = TEXT_FORMATTER
          /\ stream[i].name = "foobar" /\ stream[i].msg = "argh"
          /\ stream[i].asked = <<>>
          /\ stream[i + 1].name = "foobar" /\ stream[i + 1].msg = "boo"
          /\ stream[i + 1].asked = << <<"key", "value">> >>
          /\ stream[i + 1].reused )
            => /\ EndsWith(stream[i].text, "ERROR    foobar: argh")
               /\ EndsWith(stream[i + 1].text,
                           "WARNING  foobar [key: value]: boo")

\* the extras string of a record with these fields, as documented: the
\* template over the fields that are not suppressed, in insertion order
ExpectedExtras(f, fields) ==
    LET shown == SelectSeq(DictKeys(fields), LAMBDA k : k \notin f.keywords)
        joined == Join([i \in 1..Len(shown) |->
                           Template(f, shown[i], Get(fields, shown[i]))],
                       f.extras_separator)
    IN  IF joined = "" THEN ""
        ELSE f.extras_prefix \o joined \o f.extras_suffix

\* C6: the extras string of a line is the template applied to exactly the
\* fields of the call that are not suppressed keywords, in insertion order,
\* joined by the separator: fields test='a', test2='b' with 'test' suppressed
\* render only '[test2: b]'.
C6_ExtrasAreUnsuppressedFields ==
    \A i \in 1..Len(stream) :
        LET l == stream[i]
            f == sink.formatter
            r == [levelno |-> l.levelno, name |-> l.name, msg |-> l.msg,
                  d |-> Set(Set(Set(l.fields, "extras",
                                    ExpectedExtras(f, l.fields)),
                                "color", ""), "color_stop", ""),
                  hasKeys |-> FALSE, keys |-> <<>>, tty |-> "False"]
        IN  /\ l.text = Interpolate(f.fmt, r).s
            /\ ( /\ f = ColorExtrasFormatter(TestKeywordFormat, {"test"})
                 /\ l.kw = << <<"test", "a">>, <<"test2", "b">> >> )
                   => Contains(l.text, " [test2: b]")

-----------------------------------------------------------------------------
(* Claims on setup(), checked under SpecSetup.                             *)

\* the sinks a setup() call asks for, by handler class
ConfiguredSinks(a) ==
    LET others ==
            (IF a.use_journal THEN {"JournalHandler"} ELSE {})
                \cup (IF a.logfile # None \/ a.logdir # None
                      THEN {"WatchedFileHandler"} ELSE {})
                \cup (IF a.use_syslog THEN {"SyslogHandler"} ELSE {})
    IN  others \cup
            (IF a.use_stderr = "True" \/ (a.use_stderr = None /\ others = {})
             THEN {"ColorStreamHandler"} ELSE {})

\* C10: after a setup call the handlers on the root logger are exactly the
\* sinks that call configured, one handler each: every handler registered
\* before the call is gone.
C10_HandlersAreConfiguredSinks ==
    setupOut.called =>
        /\ \A i \in 1..Len(root.handlers) : root.handlers[i].by = setupOut.n
        /\ {root.handlers[i].kind : i \in 1..Len(root.handlers)} =
               ConfiguredSinks(setupOut.args)
        /\ \A i, j \in 1..Len(root.handlers) :
               root.handlers[i].kind = root.handlers[j].kind => i = j

\* output.preconfigured: the sink names the platform provides, each with the
\* handler class of its pre-built sink
preconfigured(syslog, journal) ==
    [name \in {"stderr", "stdout"}
              \cup (IF syslog # None THEN {"syslog"} ELSE {})
              \cup (IF journal # None THEN {"journal"} ELSE {}) |->
        CASE name \in {"stderr", "stdout"} -> "TTYDetectorStreamHandler"
          [] name = "syslog" -> "SyslogHandler"
          [] name = "journal" -> "JournalHandler"]

\* C11: setup called with a sink name that is not in the preconfigured table
\* raises an error, and setup called with recognised names returns with the
\* pre-built sink of each name registered on the root logger.
C11_SinkNamesResolve ==
    (setupOut.called /\ setupOut.kw.name = "outputs") =>
        LET names == setupOut.kw.value
            table == preconfigured(None, None)
        IN  /\ (\E i \in 1..Len(names) :
                    names[i] \notin {"stderr", "stdout", "syslog", "journal"})
                   => setupOut.exc # ""
            /\ (\A i \in 1..Len(names) : names[i] \in DOMAIN table)
                   => /\ setupOut.exc = ""
                      /\ Len(root.handlers) = Len(names)
                      /\ \A i \in 1..Len(names) :
                             root.handlers[i].kind = table[names[i]]

\* C13: after setup with use_stderr left at None, the stderr stream handler
\* is on the root logger only if journal, syslog and log file are all
\* disabled.
C13_StderrOnlyWhenAlone ==
    ( /\ setupOut.called /\ setupOut.kw = NoKeyword
      /\ setupOut.args.use_stderr = None
      /\ \E i \in 1..Len(root.handlers) :
             root.handlers[i].kind = "ColorStreamHandler" )
        => /\ ~setupOut.args.use_journal
           /\ ~setupOut.args.use_syslog
           /\ setupOut.args.logfile = None
           /\ setupOut.args.logdir = None

\* C14: an uncaught exception delivered after a setup call that left the hook
\* enabled makes exactly one CRITICAL record carrying the formatted
\* exception, on the logger of the program name given; a setup call with the
\* hook switched off returns, and an exception delivered after it makes no
\* record.
C14_ExceptHookSwitch ==
    \A i \in 1..Len(events) :
        LET e == events[i]
        IN  e.kind = "exception" =>
                IF e.after.kw.name = "set_excepthook"
                THEN /\ e.after.exc = ""
                     /\ e.records = <<>>
                ELSE e.after.exc = "" =>
                         /\ Len(e.records) = 1
                         /\ e.records[1].levelno = 50
                         /\ e.records[1].msg = "Exception: Something went wrong\n"
                         /\ e.after.args.binary # None
                                => e.records[1].name = e.after.args.binary

\* C15: a warning raised after a setup call that left warnings capture at its
\* default makes one WARNING record on logger 'py.warnings'; a setup call
\* with capture_warnings=False returns, and a warning raised after it makes
\* no record.
C15_WarningsCaptureSwitch ==
    \A i \in 1..Len(events) :
        LET e == events[i]
        IN  e.kind = "warning" =>
                IF e.after.kw.name = "capture_warnings"
                THEN /\ e.after.exc = ""
                     /\ e.records = <<>>
                ELSE e.after.exc = "" =>
                         /\ Len(e.records) = 1
                         /\ e.records[1].levelno = 30
                         /\ e.records[1].name = "py.warnings"

-----------------------------------------------------------------------------
(* Claims on Output, checked under SpecOut.                                *)

\* the records an Output has written, by number
WrittenBy(o) == {o.written[i] : i \in 1..Len(o.written)}

\* C12: an Output built with minimum level L never writes a record of
\* severity below L, whatever the logger's level is; with an ERROR sink and a
\* DEBUG sink on a logger at DEBUG, an INFO record is written by the DEBUG
\* sink only and an ERROR record by both.
C12_SinkMinimumLevel ==
    /\ \A i \in 1..Len(outs) :
           outs[i].asked.given =>
               \A k \in WrittenBy(outs[i]) :
                   logged[k].levelno >= outs[i].asked.level
    /\ \A i, j \in 1..Len(outs) : \A k \in 1..Len(logged) :
           ( /\ outs[i].asked = [given |-> TRUE, level |-> 40]
             /\ outs[j].asked = [given |-> TRUE, level |-> 10]
             /\ logged[k].level = 10 )
               => /\ logged[k].levelno = 20
                      => (k \in WrittenBy(outs[j]) /\ k \notin WrittenBy(outs[i]))
                  /\ logged[k].levelno = 40
                      => (k \in WrittenBy(outs[j]) /\ k \in WrittenBy(outs[i]))

C12_Witness ==
    /\ Len(outs) = 2 /\ Len(logged) = 2
    /\ outs[1].asked = [given |-> TRUE, level |-> 40]
    /\ outs[2].asked = [given |-> TRUE, level |-> 10]
    /\ logged[1] = [levelno |-> 20, level |-> 10]
    /\ logged[2] = [levelno |-> 40, level |-> 10]
    /\ outs[1].written = <<2>>
    /\ outs[2].written = <<1, 2>>

-----------------------------------------------------------------------------
(* Claims on the socket sink, checked under SpecSock.                      *)

\* the code points a UTF-8 byte sequence stands for
RECURSIVE Decode(_)
Decode(b) ==
    IF b = <<>> THEN <<>>
    ELSE LET n == IF b[1] < 128 THEN 1 ELSE IF b[1] < 224 THEN 2
                  ELSE IF b[1] < 240 THEN 3 ELSE 4
             c == CASE n = 1 -> b[1]
                    [] n = 2 -> (b[1] - 192) * 64 + (b[2] - 128)
                    [] n = 3 -> (b[1] - 224) * 4096 + (b[2] - 128) * 64
                                    + (b[3] - 128)
                    [] n = 4 -> (b[1] - 240) * 262144 + (b[2] - 128) * 4096
                                    + (b[3] - 128) * 64 + (b[4] - 128)
         IN  <<c>> \o Decode(SubSeq(b, n + 1, Len(b)))

\* payload is line in UTF-8 followed by one newline byte
IsPayloadOf(payload, line) ==
    /\ Len(payload) >= 1
    /\ payload[Len(payload)] = 10
    /\ Decode(SubSeq(payload, 1, Len(payload) - 1)) = line

WrittenLines == SelectSeq(sockLog, LAMBDA l : l.outcome = "written")

FailedWrites ==
    Cardinality({k \in 1..Len(sockLog) : sockLog[k].outcome = "send_failed"})

\* C16 as stated: the socket receives exactly one write per record logged,
\* in order, each the line in UTF-8 plus a newline byte, and the connection
\* is opened once for the whole sequence.
C16_OneWritePerRecord ==
    /\ Len(wire) = Len(sockLog)
    /\ \A k \in 1..Len(wire) : IsPayloadOf(wire[k], sockLog[k].line)
    /\ sockLog # <<>> => sock.opens = 1

\* C16 as amended: the socket receives exactly one write for each record
\* whose connection and write succeed, in the order logged, each the line in
\* UTF-8 plus a newline byte; every other record is dropped; the connection
\* is opened once as long as no write fails, and at most once more for each
\* failed write.
C16_OneWritePerRecordSent ==
    /\ Len(wire) = Len(WrittenLines)
    /\ \A k \in 1..Len(wire) : IsPayloadOf(wire[k], WrittenLines[k].line)
    /\ sock.opens <= 1 + FailedWrites
    /\ WrittenLines # <<>> => sock.opens >= 1

C16_Witness ==
    /\ Len(sockLog) = 3
    /\ \A k \in 1..3 : sockLog[k].outcome = "written"
    /\ sockLog[2].line = <<233>>
    /\ wire[2] = <<195, 169, 10>>
    /\ sockLog[3].line = <<8364, 128512>>
    /\ wire[3] = <<226, 130, 172, 240, 159, 152, 128, 10>>
    /\ sock.opens = 1

\* C17 as stated: a socket write that fails during a log call raises an
\* error to the caller of the log call.
C17_WriteFailurePropagates ==
    \A k \in 1..Len(sockLog) :
        sockLog[k].outcome = "send_failed" => sockLog[k].raised # ""

\* C17 as amended: a socket write that fails during a log call is caught by
\* the handler: the log call returns normally, the socket is closed and the
\* record is dropped.
C17_WriteFailureSwallowed ==
    \A k \in 1..Len(sockLog) :
        sockLog[k].outcome = "send_failed" =>
            /\ sockLog[k].raised = ""
            /\ ~sockLog[k].connected
            /\ Len(wire) < Len(sockLog)

C17_Witness ==
    /\ Len(sockLog) = 2
    /\ sockLog[1].outcome = "send_failed"
    /\ sockLog[2].outcome = "written"
    /\ sock.opens = 2
    /\ Len(wire) = 1

-----------------------------------------------------------------------------
(* Claims on failed formatting, checked under SpecFmt.                     *)

\* formatting r with f gets as far as the template and raises there
InterpolationRaises(f, r) ==
    LET a == add_color(r)
        b == add_extras(f, a.rec)
    IN  /\ a.exc = ""
        /\ b.exc = ""
        /\ Interpolate(f.fmt, b.rec).exc # ""

\* C22: scratch attributes are removed on the successful path only: when the
\* template interpolation raises inside ColorExtrasFormatter.format or
\* TTYDetectorStreamHandler.format, the call raises and the attributes attached
\* by then (color, color_stop, extras, and the TTY flag the handler set) are
\* still on the record.
C22_ScratchLeftOnFailure ==
    /\ (op = "format" /\ InterpolationRaises(fmtr, before)) =>
           /\ res.exc # ""
           /\ ScratchAttrs \subseteq KeySet(rec.d)
           /\ rec.tty = before.tty
    /\ (/\ op = "handler_format"
        /\ \A a \in {"True", "False"} :
               InterpolationRaises(fmtr, [before EXCEPT !.tty = a])) =>
           /\ res.exc # ""
           /\ ScratchAttrs \subseteq KeySet(rec.d)
           /\ rec.tty \in {"True", "False"}

C22_Witness ==
    /\ op = "handler_format"
    /\ before.tty = "absent"
    /\ KeySet(before.d) = {}
    /\ before.levelno = 40
    /\ "test" \in FmtFields(fmtr.fmt)
    /\ res.exc # ""
    /\ rec.tty = "True"
    /\ Get(rec.d, "color") = LEVEL_COLORS[40]
    /\ Get(rec.d, "color_stop") = COLOR_STOP
    /\ Get(rec.d, "extras") = ""

-----------------------------------------------------------------------------
(* Claims on the logger registry, checked under SpecLog.                   *)

-----------------------------------------------------------------------------
(* Claims on concurrent formatting, checked under SpecThr.                 *)

\* what formatting leaves on a record while it runs
HasScratch(r) == KeySet(r.d) \cap ScratchAttrs # {} \/ r.tty # "absent"

\* the line a thread gets when nothing else runs
Alone(t) ==
    TTYDetectorStreamHandler_format(thr[t].isatty, TEXT_FORMATTER,
                                    thr[t].given)

\* C18: two threads format two different records through the shared formatter;
\* under every interleaving of their steps each thread's output holds only its
\* own record's color codes and extras (it is the line the thread gets when it
\* runs alone), and both records end up with no scratch attributes.
C18_ThreadsIsolated ==
    \A t \in Threads :
        thr[t].pc \in {"done", "raised"} =>
            /\ thr[t].exc = "" => thr[t].s = Alone(t).s
            /\ ~HasScratch(thr[t].rec)

-----------------------------------------------------------------------------
(* Claims on the helper functions of output.py, checked under SpecUtil.    *)

\* C19: _get_log_file_path returns the file name alone when no directory is
\* given, the directory joined with the file name when both are given, the
\* directory joined with the program name plus the suffix when only the
\* directory is given, and raises ValueError, returning no path, when neither
\* a file name nor a directory is given.
C19_LogFilePathCases ==
    pathCall.called =>
        LET lf == pathCall.logfile
            ld == pathCall.logdir
            name == IF Truthy(pathCall.program_name)
                    THEN pathCall.program_name
                    ELSE get_program_name
        IN  CASE Truthy(lf) /\ ~Truthy(ld) ->
                     pathCall.exc = "" /\ pathCall.ret = lf
              [] Truthy(lf) /\ Truthy(ld) ->
                     /\ pathCall.exc = ""
                     /\ pathCall.ret = os_path_join(ld, lf)
              [] ~Truthy(lf) /\ Truthy(ld) ->
                     /\ pathCall.exc = ""
                     /\ pathCall.ret =
                            os_path_join(ld, name) \o pathCall.logfile_suffix
              [] OTHER ->
                     pathCall.exc = "ValueError" /\ pathCall.ret = None

C19_Witness ==
    /\ pathCall.called
    /\ pathCall.logfile = "foobar.log"
    /\ pathCall.logdir = "/var/log"
    /\ pathCall.exc = ""
    /\ pathCall.ret = "/var/log/foobar.log"

\* the facilities the platform offers: the names of the table that the
\* syslog module defines
Available(syslog) ==
    {f \in Range(FacilityNames) : Has(syslog, f)}

Normalised(facility) ==
    IF StartsWith(upper(facility), "LOG_") THEN upper(facility)
    ELSE "LOG_" \o upper(facility)

\* C20: Syslog._find_facility resolves a facility name, whatever its case and
\* with or without the LOG_ prefix, to the platform's constant of that
\* facility, and raises TypeError for every name that, upper-cased and
\* prefixed, is not a facility available on the platform.
C20_FacilityResolves ==
    facCall.called =>
        IF Normalised(facCall.facility) \in Available(facCall.syslog)
        THEN /\ facCall.exc = ""
             /\ facCall.ret = Get(facCall.syslog, Normalised(facCall.facility))
        ELSE facCall.exc = "TypeError"

-----------------------------------------------------------------------------
(* Specifications: one scenario runs, the others stay as initialised.      *)

Init ==
    /\ FmtInit
    /\ ProcInit
    /\ LogInit
    /\ SetupInit
    /\ OutInit
    /\ SockInit
    /\ ThrInit
    /\ UtilInit

SpecFmt == Init /\ [][FmtNext]_vars

SpecProc == Init /\ [][ProcNext]_vars

SpecLog == Init /\ [][LogNext]_vars

SpecSetup == Init /\ [][SetupNext]_vars

SpecOut == Init /\ [][OutNext]_vars

SpecSock == Init /\ [][SockNext]_vars

SpecThr == Init /\ [][ThrNext]_vars

SpecUtil == Init /\ [][UtilNext]_vars

=============================================================================
